---- MODULE Spec2Model ----
(***************************************************************************)
(* The request handlers of server/controllers/index.js over the Cat and    *)
(* Dog collections.  A handler is an async function: it runs from its call *)
(* to its first store operation in one step, the store executes the        *)
(* operation in a step of its own (fulfilling or rejecting the promise),   *)
(* and the handler resumes in a later step.  Handlers of different         *)
(* requests interleave at these boundaries.                                *)
(***************************************************************************)
EXTENDS Integers, Sequences, FiniteSets, TLC

\* Requests in flight at once (one per client connection).
NumReq == 2
\* Cat documents ever constructed (createdDate stamps handed out).
MaxStamp == 2
\* Dog documents ever stored.
MaxDogs == 2
\* Cap on bedsOwned, reached by updateLast.
MaxBeds == 3
\* Cap on age, reached by searchDogName.
MaxAge == 3

Req == 1..NumReq

VARIABLES
    cats,       \* the Cat collection, in insertion (natural) order
    dogs,       \* the Dog collection, in insertion (natural) order
    clock,      \* the last createdDate handed out by Date.now
    handler,    \* handler[r]: the handler running (or last run) for request slot r
    pc,         \* pc[r]: where that handler is
    arg,        \* arg[r]: the request's body / query
    doc,        \* doc[r]: the handler's local document (doc, newCat, newDog)
    settled,    \* settled[r]: state of the promise the handler awaits
    out,        \* out[r]: responses emitted through res for the request
    unhandled,  \* unhandled[r]: a promise rejection nobody handles was produced
    hist        \* history: initial values and counts the claims speak about

vars == <<cats, dogs, clock, handler, pc, arg, doc, settled, out, unhandled, hist>>

---------------------------------------------------------------------------
\* JavaScript values that arrive in req.body / req.query.

Undef == [t |-> "undefined", s |-> "", n |-> 0]
Str(x) == [t |-> "string", s |-> x, n |-> 0]
Num(k) == [t |-> "number", s |-> "", n |-> k]
\* [] : truthy, and "" when put in a template literal
EmptyArr == [t |-> "array", s |-> "", n |-> 0]

\* !v
Falsy(v) ==
    \/ v.t = "undefined"
    \/ v.t = "string" /\ v.s = ""
    \/ v.t = "number" /\ v.n = 0

Digits == <<"1", "2", "3", "4", "5", "6", "7", "8", "9">>

\* `${v}`
TemplateString(v) ==
    CASE v.t = "undefined" -> "undefined"
      [] v.t = "string" -> v.s
      [] v.t = "number" -> (IF v.n = 0 THEN "0" ELSE Digits[v.n])
      [] v.t = "array" -> ""

Null == [null |-> TRUE]

NoArg == [none |-> TRUE]

\* res.status(s).json(body)
Json(s, body) == [status |-> s, json |-> body]

\* res.status(s).render(view, ctx)
Render(s, view, ctx) == [status |-> s, view |-> view, ctx |-> ctx]

---------------------------------------------------------------------------
\* The models (Cat, Dog) and the store operations the handlers use.

\* new Cat(catData): the schema casts the fields and defaults createdDate to now
Cat(catData, now) ==
    [name |-> catData.name, bedsOwned |-> catData.bedsOwned, createdDate |-> now]

\* new Dog(dogData)
Dog(dogData) ==
    [name |-> dogData.name, breed |-> dogData.breed, age |-> dogData.age]

\* the schema's validation on save: name is a required string
CatValid(c) == c.name # ""

DogValid(d) == d.name # "" /\ d.breed # ""

RECURSIVE InsertDesc(_, _)
\* c put into cs, which is sorted by createdDate descending, before the first
\* document that is not newer than it
InsertDesc(c, cs) ==
    IF cs = <<>> THEN <<c>>
    ELSE IF c.createdDate > Head(cs).createdDate THEN <<c>> \o cs
    ELSE <<Head(cs)>> \o InsertDesc(c, Tail(cs))

RECURSIVE SortDesc(_)
\* sort: { createdDate: 'descending' }
SortDesc(cs) ==
    IF cs = <<>> THEN <<>>
    ELSE InsertDesc(Head(cs), SortDesc(Tail(cs)))

\* Mutant of FindLastCat: the sort is ascending.
FindOldestCat(cs) ==
    IF cs = <<>> THEN Null ELSE SortDesc(cs)[Len(cs)]

\* Cat.findOne({}).sort({ createdDate: 'descending' }) : the first of the sorted
\* documents, or null
FindLastCat(cs) ==
    IF cs = <<>> THEN Null ELSE Head(SortDesc(cs))

\* Model.findOne({ name }) : the first document in natural order with that name
FindByName(coll, name) ==
    IF \E i \in 1..Len(coll) : coll[i].name = name
    THEN LET i == CHOOSE i \in 1..Len(coll) :
                    /\ coll[i].name = name
                    /\ \A j \in 1..(i - 1) : coll[j].name # name
         IN i
    ELSE 0

\* Mutant of IncBeds: the update is a replacement document, not an operator.
ReplaceBeds(c) ==
    [name |-> "", bedsOwned |-> c.bedsOwned + 1, createdDate |-> c.createdDate]

\* { $inc: { bedsOwned: 1 } } applied to one document
IncBeds(c) == [c EXCEPT !.bedsOwned = @ + 1]

\* Mutant of UpdateLastCat: the sort option is left out, and the first document
\* in natural order is updated.
UpdateFirstCat(cs) ==
    [i \in 1..Len(cs) |-> IF i = 1 THEN IncBeds(cs[i]) ELSE cs[i]]

\* Cat.findOneAndUpdate({}, { $inc: { bedsOwned: 1 } }, { sort: createdDate desc }):
\* the collection after the update of the first of the sorted documents
UpdateLastCat(cs) ==
    [i \in 1..Len(cs) |->
        IF cs[i].createdDate = FindLastCat(cs).createdDate THEN IncBeds(cs[i]) ELSE cs[i]]

---------------------------------------------------------------------------
\* Request inputs.

FirstNames == {Undef, Str("Tom")}
LastNames == {Str(""), Str("Cat"), Str("Kit")}
BedsValues == {Undef, Num(0), Num(1), Num(2)}
CatBodies == [firstname : FirstNames, lastname : LastNames, beds : BedsValues]

NameQueries == {Undef, Str(""), Str("Tom Cat"), Str("Tom Kit")}

DogNames == {Undef, EmptyArr, Str("Rex"), Str("Fido")}
Breeds == {Str(""), Str("Lab")}
AgeValues == {Undef, Num(0), Num(1), Num(2)}
DogBodies == [name : DogNames, breed : Breeds, age : AgeValues]

DogQueries == {Undef, Str(""), Str("Rex"), Str("Fido")}

---------------------------------------------------------------------------

Init ==
    /\ cats = <<>>
    /\ dogs = <<>>
    /\ clock = 0
    /\ handler = [r \in Req |-> "none"]
    /\ pc = [r \in Req |-> "idle"]
    /\ arg = [r \in Req |-> NoArg]
    /\ doc = [r \in Req |-> Null]
    /\ settled = [r \in Req |-> "none"]
    /\ out = [r \in Req |-> <<>>]
    /\ unhandled = [r \in Req |-> FALSE]
    /\ hist = [beds0 |-> <<>>, upd |-> <<>>, touched |-> [r \in Req |-> FALSE]]

\* A request slot takes a new request once the handler of the last one has returned.
Free(r) == pc[r] \in {"idle", "done"}

At(r, h, p) == handler[r] = h /\ pc[r] = p

\* The routing layer invokes handler h for slot r; the handler issues a store
\* operation and awaits it.
Await(r, h, a, d) ==
    /\ Free(r)
    /\ handler' = [handler EXCEPT ![r] = h]
    /\ pc' = [pc EXCEPT ![r] = "await"]
    /\ arg' = [arg EXCEPT ![r] = a]
    /\ doc' = [doc EXCEPT ![r] = d]
    /\ settled' = [settled EXCEPT ![r] = "pending"]
    /\ out' = [out EXCEPT ![r] = <<>>]
    /\ unhandled' = [unhandled EXCEPT ![r] = FALSE]

\* The routing layer invokes handler h for slot r; the handler sends `resp`
\* and returns without a store operation.
Reply(r, h, resp) ==
    /\ Free(r)
    /\ handler' = [handler EXCEPT ![r] = h]
    /\ pc' = [pc EXCEPT ![r] = "done"]
    /\ arg' = [arg EXCEPT ![r] = NoArg]
    /\ doc' = [doc EXCEPT ![r] = Null]
    /\ settled' = [settled EXCEPT ![r] = "none"]
    /\ out' = [out EXCEPT ![r] = <<resp>>]
    /\ unhandled' = [unhandled EXCEPT ![r] = FALSE]

\* The store settles the promise slot r awaits, with result d; the handler
\* will resume at `to`.
Settle(r, how, d, to) ==
    /\ settled' = [settled EXCEPT ![r] = how]
    /\ doc' = [doc EXCEPT ![r] = d]
    /\ pc' = [pc EXCEPT ![r] = to]
    /\ UNCHANGED <<handler, arg, out, unhandled>>

\* The handler of slot r sends `resp` and returns.
Return(r, resp) ==
    /\ out' = [out EXCEPT ![r] = Append(@, resp)]
    /\ pc' = [pc EXCEPT ![r] = "done"]
    /\ settled' = [settled EXCEPT ![r] = "none"]
    /\ arg' = [arg EXCEPT ![r] = NoArg]
    /\ doc' = [doc EXCEPT ![r] = Null]
    /\ UNCHANGED <<handler, unhandled>>

Untouched(r) == [hist EXCEPT !.touched[r] = FALSE]

---------------------------------------------------------------------------
\* The handlers.

hostIndex(r) ==
    /\ Await(r, "hostIndex", NoArg, Null)
    /\ UNCHANGED <<cats, dogs, clock, hist>>

hostIndex_findOne(r) ==
    /\ At(r, "hostIndex", "await")
    /\ \/ Settle(r, "fulfilled", FindLastCat(cats), "resume")
       \/ Settle(r, "rejected", Null, "resume")
    /\ UNCHANGED <<cats, dogs, clock, hist>>

hostIndex_render(r) ==
    /\ At(r, "hostIndex", "resume")
    /\ LET name == IF settled[r] = "fulfilled" /\ doc[r] # Null
                   THEN doc[r].name ELSE "unknown"
       IN Return(r, Render(200, "index",
                   [currentName |-> name, title |-> "Home", pageName |-> "Home Page"]))
    /\ UNCHANGED <<cats, dogs, clock, hist>>

hostPage1(r) ==
    /\ Await(r, "hostPage1", NoArg, Null)
    /\ UNCHANGED <<cats, dogs, clock, hist>>

hostPage1_find(r) ==
    /\ At(r, "hostPage1", "await")
    /\ \/ Settle(r, "fulfilled", cats, "resume")
       \/ Settle(r, "rejected", Null, "resume")
    /\ UNCHANGED <<cats, dogs, clock, hist>>

hostPage1_render(r) ==
    /\ At(r, "hostPage1", "resume")
    /\ IF settled[r] = "fulfilled"
       THEN Return(r, Render(200, "page1", [cats |-> doc[r]]))
       ELSE Return(r, Json(500, [error |-> "failed to find cats"]))
    /\ UNCHANGED <<cats, dogs, clock, hist>>

hostPage2(r) ==
    /\ Reply(r, "hostPage2", Render(200, "page2", <<>>))
    /\ UNCHANGED <<cats, dogs, clock, hist>>

hostPage3(r) ==
    /\ Reply(r, "hostPage3", Render(200, "page3", <<>>))
    /\ UNCHANGED <<cats, dogs, clock, hist>>

hostPage4(r) ==
    /\ Await(r, "hostPage4", NoArg, Null)
    /\ UNCHANGED <<cats, dogs, clock, hist>>

hostPage4_find(r) ==
    /\ At(r, "hostPage4", "await")
    /\ \/ Settle(r, "fulfilled", dogs, "resume")
       \/ Settle(r, "rejected", Null, "resume")
    /\ UNCHANGED <<cats, dogs, clock, hist>>

hostPage4_render(r) ==
    /\ At(r, "hostPage4", "resume")
    /\ IF settled[r] = "fulfilled"
       THEN Return(r, Render(200, "page4", [dogs |-> doc[r]]))
       ELSE Return(r, Json(500, [error |-> "failed to find dogs"]))
    /\ UNCHANGED <<cats, dogs, clock, hist>>

getName(r) ==
    /\ Await(r, "getName", NoArg, Null)
    /\ UNCHANGED <<cats, dogs, clock, hist>>

getName_findOne(r) ==
    /\ At(r, "getName", "await")
    /\ \/ Settle(r, "fulfilled", FindLastCat(cats), "resume")
       \/ Settle(r, "rejected", Null, "resume")
    /\ UNCHANGED <<cats, dogs, clock, hist>>

getName_respond(r) ==
    /\ At(r, "getName", "resume")
    /\ IF settled[r] = "fulfilled"
       THEN IF doc[r] # Null
            THEN Return(r, Json(200, [name |-> doc[r].name]))
            ELSE Return(r, Json(404, [error |-> "No cat found"]))
       ELSE Return(r, Json(500, [error |-> "Something went wrong contacting the database"]))
    /\ UNCHANGED <<cats, dogs, clock, hist>>

\* Mutant of setNameMissing: lastname is not checked.
setNameMissingNoLast(body) ==
    Falsy(body.firstname) \/ Falsy(body.beds)

\* !req.body.firstname || !req.body.lastname || !req.body.beds
setNameMissing(body) ==
    Falsy(body.firstname) \/ Falsy(body.lastname) \/ Falsy(body.beds)

\* Mutant of catData: the names are joined without the space.
catDataNoSpace(body) ==
    [name |-> TemplateString(body.firstname) \o TemplateString(body.lastname),
     bedsOwned |-> body.beds.n]

catData(body) ==
    [name |-> TemplateString(body.firstname) \o " " \o TemplateString(body.lastname),
     bedsOwned |-> body.beds.n]

\* lines 147-184: the presence check, catData, new Cat(catData), and save() issued
setName(r) ==
    \E body \in CatBodies :
        IF setNameMissing(body)
        THEN /\ Reply(r, "setName",
                      Json(400, [error |-> "firstname, lastname and beds are all required"]))
             /\ UNCHANGED <<cats, dogs, clock, hist>>
        ELSE /\ clock < MaxStamp
             /\ Await(r, "setName", body, Cat(catData(body), clock + 1))
             /\ clock' = clock + 1
             /\ UNCHANGED <<cats, dogs, hist>>

\* newCat.save() in the store
setName_save(r) ==
    /\ At(r, "setName", "await")
    /\ \/ /\ CatValid(doc[r])
          /\ cats' = Append(cats, doc[r])
          /\ hist' = [hist EXCEPT !.beds0 = Append(@, doc[r].bedsOwned),
                                  !.upd = Append(@, 0)]
          /\ Settle(r, "fulfilled", doc[r], "resume")
       \/ /\ Settle(r, "rejected", doc[r], "resume")
          /\ UNCHANGED <<cats, hist>>
    /\ UNCHANGED <<dogs, clock>>

setName_respond(r) ==
    /\ At(r, "setName", "resume")
    /\ IF settled[r] = "fulfilled"
       THEN Return(r, Json(201, [name |-> doc[r].name, beds |-> doc[r].bedsOwned]))
       ELSE Return(r, Json(500, [error |-> "failed to create cat"]))
    /\ UNCHANGED <<cats, dogs, clock, hist>>

searchName(r) ==
    /\ \E name \in NameQueries :
        IF Falsy(name)
        THEN Reply(r, "searchName",
                   Json(400, [error |-> "Name is required to perform a search"]))
        ELSE Await(r, "searchName", name, Null)
    /\ UNCHANGED <<cats, dogs, clock, hist>>

searchName_findOne(r) ==
    /\ At(r, "searchName", "await")
    /\ \/ LET i == FindByName(cats, arg[r].s)
          IN Settle(r, "fulfilled", IF i = 0 THEN Null ELSE cats[i], "resume")
       \/ Settle(r, "rejected", Null, "resume")
    /\ UNCHANGED <<cats, dogs, clock, hist>>

searchName_respond(r) ==
    /\ At(r, "searchName", "resume")
    /\ IF settled[r] = "rejected"
       THEN Return(r, Json(500, [error |-> "Something went wrong"]))
       ELSE IF doc[r] = Null
            THEN Return(r, Json(404, [error |-> "No cats found"]))
            ELSE Return(r, Json(200, [name |-> doc[r].name, beds |-> doc[r].bedsOwned]))
    /\ UNCHANGED <<cats, dogs, clock, hist>>

\* lines 252-289: the query is issued and both continuations are attached
updateLast(r) ==
    /\ Await(r, "updateLast", NoArg, Null)
    /\ UNCHANGED <<cats, dogs, clock, hist>>

\* findOneAndUpdate in the store, one atomic operation
updateLast_findOneAndUpdate(r) ==
    /\ At(r, "updateLast", "await")
    /\ \/ /\ cats # <<>> => FindLastCat(cats).bedsOwned < MaxBeds
          /\ cats' = UpdateLastCat(cats)
          /\ Settle(r, "fulfilled", FindLastCat(cats'), "then")
       \/ /\ Settle(r, "rejected", Null, "then")
          /\ UNCHANGED cats
    /\ UNCHANGED <<dogs, clock, hist>>

\* updatePromise.then((doc) => res.json(...)): the callback on fulfilment; on
\* rejection the promise .then returned is rejected, and nothing handles it
updateLast_then(r) ==
    /\ At(r, "updateLast", "then")
    /\ pc' = [pc EXCEPT ![r] = "catch"]
    /\ IF settled[r] = "fulfilled" /\ doc[r] # Null
       THEN /\ out' = [out EXCEPT ![r] =
                        Append(@, Json(200, [name |-> doc[r].name,
                                             beds |-> doc[r].bedsOwned]))]
            /\ LET i == CHOOSE i \in 1..Len(cats) :
                            cats[i].createdDate = doc[r].createdDate
               IN hist' = [hist EXCEPT !.upd[i] = @ + 1]
            /\ UNCHANGED unhandled
       ELSE /\ unhandled' = [unhandled EXCEPT ![r] = TRUE]
            /\ UNCHANGED <<out, hist>>
    /\ UNCHANGED <<cats, dogs, clock, handler, arg, doc, settled>>

\* updatePromise.catch((err) => res.status(500).json(...))
updateLast_catch(r) ==
    /\ At(r, "updateLast", "catch")
    /\ pc' = [pc EXCEPT ![r] = "done"]
    /\ out' = [out EXCEPT ![r] =
                IF settled[r] = "rejected"
                THEN Append(@, Json(500, [error |-> "Something went wrong"]))
                ELSE @]
    /\ settled' = [settled EXCEPT ![r] = "none"]
    /\ doc' = [doc EXCEPT ![r] = Null]
    /\ UNCHANGED <<cats, dogs, clock, handler, arg, unhandled, hist>>

\* !req.body.name || !req.body.breed || !req.body.age
setDogNameMissing(body) ==
    Falsy(body.name) \/ Falsy(body.breed) \/ Falsy(body.age)

dogData(body) ==
    [name |-> TemplateString(body.name), breed |-> TemplateString(body.breed),
     age |-> body.age.n]

\* lines 292-304: the presence check, dogData, new Dog(dogData), and save() issued
setDogName(r) ==
    /\ \E body \in DogBodies :
        IF setDogNameMissing(body)
        THEN Reply(r, "setDogName",
                   Json(400, [error |-> "name, breed and age are all required"]))
        ELSE /\ Len(dogs) + Cardinality({q \in Req : At(q, "setDogName", "await")})
                        < MaxDogs
             /\ Await(r, "setDogName", body, Dog(dogData(body)))
    /\ UNCHANGED <<cats, dogs, clock, hist>>

\* newDog.save() in the store
setDogName_save(r) ==
    /\ At(r, "setDogName", "await")
    /\ \/ /\ DogValid(doc[r])
          /\ dogs' = Append(dogs, doc[r])
          /\ Settle(r, "fulfilled", doc[r], "resume")
       \/ /\ Settle(r, "rejected", doc[r], "resume")
          /\ UNCHANGED dogs
    /\ UNCHANGED <<cats, clock, hist>>

setDogName_respond(r) ==
    /\ At(r, "setDogName", "resume")
    /\ IF settled[r] = "fulfilled"
       THEN Return(r, Json(201, [name |-> doc[r].name, breed |-> doc[r].breed,
                                 age |-> doc[r].age]))
       ELSE Return(r, Json(500, [error |-> "failed to create dog"]))
    /\ UNCHANGED <<cats, dogs, clock, hist>>

searchDogName(r) ==
    /\ \E dogname \in DogQueries :
        IF Falsy(dogname)
        THEN Reply(r, "searchDogName",
                   Json(400, [error |-> "Name is required to perform a search"]))
        ELSE Await(r, "searchDogName", dogname, Null)
    /\ hist' = Untouched(r)
    /\ UNCHANGED <<cats, dogs, clock>>

\* Dog.findOne({ name: req.body.dogname }) in the store: a document, with its _id
searchDogName_findOne(r) ==
    /\ At(r, "searchDogName", "await")
    /\ \/ LET i == FindByName(dogs, arg[r].s)
          IN Settle(r, "fulfilled",
                    IF i = 0 THEN Null
                    ELSE [id |-> i, name |-> dogs[i].name, breed |-> dogs[i].breed,
                          age |-> dogs[i].age],
                    "resume")
       \/ Settle(r, "rejected", Null, "resume")
    /\ UNCHANGED <<cats, dogs, clock, hist>>

\* Mutant of AgeUp: the age is raised by 2.
AgeUpTwice(d) == [d EXCEPT !.age = @ + 2]

\* doc.age += 1
AgeUp(d) == [d EXCEPT !.age = @ + 1]

\* lines 324-329: after the find, doc.age += 1 and doc.save() is issued; a
\* rejected find, or the TypeError of null.age, goes to the catch
searchDogName_age(r) ==
    /\ At(r, "searchDogName", "resume")
    /\ IF settled[r] = "rejected" \/ doc[r] = Null
       THEN Return(r, Json(500, [error |-> "Something went wrong"]))
       ELSE /\ doc' = [doc EXCEPT ![r] = AgeUp(@)]
            /\ pc' = [pc EXCEPT ![r] = "await2"]
            /\ settled' = [settled EXCEPT ![r] = "pending"]
            /\ UNCHANGED <<handler, arg, out, unhandled>>
    /\ UNCHANGED <<cats, dogs, clock, hist>>

\* Mutant of SaveDog: the store adds 1 to the stored age (an atomic $inc).
SaveDogInc(ds, d) == [ds EXCEPT ![d.id].age = @ + 1]

\* doc.save() applied by the store: the document's modified path is written
SaveDog(ds, d) == [ds EXCEPT ![d.id].age = d.age]

\* The requests that hold a copy of the same dog, read before this save.
Holders(r) ==
    {q \in Req \ {r} : /\ handler[q] = "searchDogName"
                        /\ pc[q] \in {"resume", "await2", "resume2"}
                        /\ settled[q] # "rejected"
                        /\ doc[q] # Null
                        /\ doc[q].id = doc[r].id}

searchDogName_save(r) ==
    /\ At(r, "searchDogName", "await2")
    /\ \/ /\ doc[r].age <= MaxAge
          /\ dogs' = SaveDog(dogs, doc[r])
          /\ hist' = [hist EXCEPT !.touched =
                        [q \in Req |-> IF q \in Holders(r) THEN TRUE ELSE @[q]]]
          /\ Settle(r, "fulfilled", doc[r], "resume2")
       \/ /\ Settle(r, "rejected", doc[r], "resume2")
          /\ UNCHANGED <<dogs, hist>>
    /\ UNCHANGED <<cats, clock>>

\* lines 327-336
searchDogName_respond(r) ==
    /\ At(r, "searchDogName", "resume2")
    /\ IF settled[r] = "rejected"
       THEN Return(r, Json(500, [error |-> "Something went wrong"]))
       ELSE IF doc[r] = Null
            THEN Return(r, Json(404, [error |-> "No dog found"]))
            ELSE Return(r, Json(200, [name |-> doc[r].name, breed |-> doc[r].breed,
                                      age |-> doc[r].age]))
    /\ UNCHANGED <<cats, dogs, clock, hist>>

notFound(r) ==
    /\ Reply(r, "notFound", Render(404, "notFound", [page |-> "/nothing"]))
    /\ UNCHANGED <<cats, dogs, clock, hist>>

---------------------------------------------------------------------------

\* The handlers that read or write one Cat document.
CatNext ==
    \E r \in Req :
        \/ hostIndex(r) \/ hostIndex_findOne(r) \/ hostIndex_render(r)
        \/ getName(r) \/ getName_findOne(r) \/ getName_respond(r)
        \/ setName(r) \/ setName_save(r) \/ setName_respond(r)
        \/ searchName(r) \/ searchName_findOne(r) \/ searchName_respond(r)
        \/ updateLast(r) \/ updateLast_findOneAndUpdate(r)
        \/ updateLast_then(r) \/ updateLast_catch(r)

\* The handlers that read or write one Dog document.
DogNext ==
    \E r \in Req :
        \/ setDogName(r) \/ setDogName_save(r) \/ setDogName_respond(r)
        \/ searchDogName(r) \/ searchDogName_findOne(r) \/ searchDogName_age(r)
        \/ searchDogName_save(r) \/ searchDogName_respond(r)

\* The handlers that render a page: a list of a whole collection, or a static view.
PageNext ==
    \E r \in Req :
        \/ hostPage1(r) \/ hostPage1_find(r) \/ hostPage1_render(r)
        \/ hostPage4(r) \/ hostPage4_find(r) \/ hostPage4_render(r)
        \/ hostPage2(r) \/ hostPage3(r) \/ notFound(r)

CatHandlers == {"hostIndex", "getName", "setName", "searchName", "updateLast"}

DogHandlers == {"setDogName", "searchDogName"}

\* No request has used the Dog routes, or none the Cat routes.
OnlyCats == dogs = <<>> /\ \A r \in Req : handler[r] \notin DogHandlers

OnlyDogs == cats = <<>> /\ clock = 0 /\ \A r \in Req : handler[r] \notin CatHandlers

\* No handler reads or writes both collections, so a behaviour that mixes the
\* routes of the two is an interleaving of one over each; RoutesNext takes the
\* routes of one collection per behaviour.
RoutesNext == (OnlyCats /\ CatNext) \/ (OnlyDogs /\ DogNext)

Next == CatNext \/ DogNext \/ PageNext

\* Every route of the application.
Spec == Init /\ [][Next]_vars

\* The routes of single Cat documents alone: no handler uses both collections.
SpecCat == Init /\ [][CatNext]_vars

\* The routes of single Dog documents alone.
SpecDog == Init /\ [][DogNext]_vars

\* The routes of single documents, of either collection.
SpecRoutes == Init /\ [][RoutesNext]_vars

---------------------------------------------------------------------------
\* Vocabulary of the properties.

\* Slot r's handler h has returned with a response of status st.
Answered(r, h, st) ==
    /\ handler[r] = h
    /\ pc[r] = "done"
    /\ Len(out[r]) = 1
    /\ out[r][1].status = st

\* The store executes the operation slot r's handler h awaits at p, with success.
StoreDoes(r, h, p) == At(r, h, p) /\ pc'[r] # p /\ settled'[r] = "fulfilled"

\* The handler h of slot r resumes at p and returns.
Returns(r, h, p) == At(r, h, p) /\ pc'[r] = "done"

\* cs[i] has the maximum createdDate of cs.
Newest(cs, i) == \A j \in 1..Len(cs) : cs[j].createdDate <= cs[i].createdDate

---------------------------------------------------------------------------
\* C1: setName with valid firstname, lastname and beds whose save succeeds stores
\* exactly one new Cat, named firstname + " " + lastname with the supplied beds,
\* and responds 201 with that name and beds; a getName whose query runs while
\* that cat is the latest created one responds 200 with that same name.
C1_CreateThenGetName ==
    [][\A r \in Req :
        /\ StoreDoes(r, "setName", "await") =>
              /\ Len(cats') = Len(cats) + 1
              /\ \A i \in 1..Len(cats) : cats'[i] = cats[i]
              /\ cats'[Len(cats')].name = arg[r].firstname.s \o " " \o arg[r].lastname.s
              /\ cats'[Len(cats')].bedsOwned = arg[r].beds.n
        /\ (Returns(r, "setName", "resume") /\ settled[r] = "fulfilled") =>
              /\ out'[r] = << [status |-> 201,
                               json |-> [name |-> arg[r].firstname.s \o " "
                                                    \o arg[r].lastname.s,
                                         beds |-> arg[r].beds.n]] >>
              /\ \E i \in 1..Len(cats) :
                    /\ cats[i].name = out'[r][1].json.name
                    /\ cats[i].createdDate = doc[r].createdDate
        /\ StoreDoes(r, "getName", "await") =>
              \A i \in 1..Len(cats) : Newest(cats, i) => doc'[r].name = cats[i].name
        /\ (Returns(r, "getName", "resume") /\ settled[r] = "fulfilled" /\ doc[r] # Null) =>
              out'[r] = << [status |-> 200, json |-> [name |-> doc[r].name]] >>
    ]_vars

\* Two cats were created one after the other, and the getName that followed the
\* 201 of the second answered 200 with the second cat's name.
C1_Witness ==
    \E r, q \in Req :
        /\ Answered(r, "setName", 201)
        /\ out[r][1].json = [name |-> "Tom Kit", beds |-> 2]
        /\ Answered(q, "getName", 200)
        /\ out[q][1].json = [name |-> "Tom Kit"]
        /\ Len(cats) = 2
        /\ cats[1].name = "Tom Cat"
        /\ cats[2] = [name |-> "Tom Kit", bedsOwned |-> 2, createdDate |-> 2]

---------------------------------------------------------------------------
\* The updateLast calls that have updated cat i and not yet answered.
Answering(i) ==
    {r \in Req : /\ At(r, "updateLast", "then")
                 /\ settled[r] = "fulfilled"
                 /\ doc[r] # Null
                 /\ doc[r].createdDate = cats[i].createdDate}

\* C3: each successful updateLast adds exactly 1, atomically, to bedsOwned of the
\* Cat with the latest createdDate, changes no other Cat, and responds 200 with
\* that cat's name and its beds after the increment; so every cat's bedsOwned is
\* its initial value plus the number of successful updateLast calls made while it
\* was the latest, in sequence or interleaved.
C3_UpdateLastAtomic ==
    /\ [](\A i \in 1..Len(cats) :
            cats[i].bedsOwned = hist.beds0[i] + hist.upd[i] + Cardinality(Answering(i)))
    /\ [][\A r \in Req :
            /\ (StoreDoes(r, "updateLast", "await") /\ cats # <<>>) =>
                  \E i \in 1..Len(cats) :
                      /\ Newest(cats, i)
                      /\ cats'[i] = [cats[i] EXCEPT !.bedsOwned = cats[i].bedsOwned + 1]
                      /\ \A j \in 1..Len(cats) : j # i => cats'[j] = cats[j]
                      /\ Len(cats') = Len(cats)
                      /\ doc'[r] = cats'[i]
            /\ (At(r, "updateLast", "then") /\ pc'[r] = "catch"
                    /\ settled[r] = "fulfilled" /\ doc[r] # Null) =>
                  out'[r] = << [status |-> 200,
                                json |-> [name |-> doc[r].name,
                                          beds |-> doc[r].bedsOwned]] >>
       ]_vars

\* Two updateLast calls have answered 200, with beds 2 and 3, for the later of two
\* cats, which started with 1 bed; the earlier cat still has its 1 bed.
C3_Witness ==
    /\ Len(cats) = 2
    /\ cats[1] = [name |-> "Tom Kit", bedsOwned |-> 3, createdDate |-> 2]
    /\ cats[2] = [name |-> "Tom Cat", bedsOwned |-> 1, createdDate |-> 1]
    /\ hist.beds0 = <<1, 1>>
    /\ hist.upd = <<2, 0>>
    /\ \E r, q \in Req :
        /\ Answered(r, "updateLast", 200)
        /\ out[r][1].json = [name |-> "Tom Kit", beds |-> 2]
        /\ Answered(q, "updateLast", 200)
        /\ out[q][1].json = [name |-> "Tom Kit", beds |-> 3]

---------------------------------------------------------------------------
\* C6: the home view and getName report the Cat that has the maximum createdDate
\* at the moment their query runs, whatever is created before they answer; with
\* no cat, or with a store error, the home view answers 200 with "unknown";
\* getName answers 404 with no cat.
C6_MostRecentAtQuery ==
    [][\A r \in Req : \A h \in {"hostIndex", "getName"} :
        /\ StoreDoes(r, h, "await") =>
              IF cats = <<>> THEN doc'[r] = Null
              ELSE \E i \in 1..Len(cats) : Newest(cats, i) /\ doc'[r] = cats[i]
        /\ Returns(r, "hostIndex", "resume") =>
              /\ Len(out'[r]) = 1
              /\ out'[r][1].status = 200
              /\ out'[r][1].view = "index"
              /\ out'[r][1].ctx.currentName =
                    IF settled[r] = "rejected" \/ doc[r] = Null
                    THEN "unknown" ELSE doc[r].name
        /\ (Returns(r, "getName", "resume") /\ settled[r] = "fulfilled") =>
              /\ Len(out'[r]) = 1
              /\ IF doc[r] = Null
                 THEN out'[r][1].status = 404 /\ "error" \in DOMAIN out'[r][1].json
                 ELSE out'[r][1] = [status |-> 200, json |-> [name |-> doc[r].name]]
    ]_vars

\* getName is about to answer with the cat that was the latest when its query ran,
\* and a later cat has been stored since.
C6_Witness ==
    \E r \in Req :
        /\ At(r, "getName", "resume")
        /\ settled[r] = "fulfilled"
        /\ doc[r] = [name |-> "Tom Cat", bedsOwned |-> 1, createdDate |-> 1]
        /\ cats = << [name |-> "Tom Cat", bedsOwned |-> 1, createdDate |-> 1],
                     [name |-> "Tom Kit", bedsOwned |-> 1, createdDate |-> 2] >>

---------------------------------------------------------------------------
\* C7: no handler leaves a promise rejection unhandled, whatever the store does.
C7_NoUnhandledRejection ==
    \A r \in Req : unhandled[r] = FALSE

\* C10: a handler call whose store operations have completed has emitted exactly
\* one response.
C10_ExactlyOneResponse ==
    \A r \in Req : pc[r] = "done" => Len(out[r]) = 1

---------------------------------------------------------------------------
\* A field of a request body that is missing or empty.
MissingOrEmpty(v) == v.t = "undefined" \/ (v.t = "string" /\ v.s = "")

\* C2: a setName call with firstname, lastname or beds missing or empty, and a
\* setDogName call with name, breed or age missing or empty, is answered 400 with
\* an error body, issues no store operation and leaves both collections as they
\* were: a call either ends so, or has none of its fields missing or empty.
C2_MissingFieldNoWrite ==
    [][\A r \in Req : \A h \in {"setName", "setDogName"} :
        (/\ Free(r)
         /\ handler'[r] = h
         /\ <<handler[r], pc[r], out[r]>> # <<handler'[r], pc'[r], out'[r]>>) =>
            \/ /\ pc'[r] = "done"
               /\ settled'[r] = "none"
               /\ Len(out'[r]) = 1
               /\ out'[r][1].status = 400
               /\ DOMAIN out'[r][1].json = {"error"}
               /\ cats' = cats
               /\ dogs' = dogs
            \/ /\ pc'[r] = "await"
               /\ \A f \in DOMAIN arg'[r] : ~MissingOrEmpty(arg'[r][f])
    ]_vars

\* A setName call was answered 400 while a cat was stored, and the collection
\* holds that cat alone, as before.
C2_Witness ==
    \E r, q \in Req :
        /\ Answered(r, "setName", 400)
        /\ Answered(q, "setName", 201)
        /\ cats = << [name |-> "Tom Cat", bedsOwned |-> 2, createdDate |-> 1] >>
        /\ clock = 1

---------------------------------------------------------------------------
\* C4: a searchDogName that finds a dog no other request writes meanwhile adds
\* exactly 1 to that dog's stored age, changes no other Dog and no Cat, and
\* answers 200 with the dog's name, breed and the age now stored.
C4_SearchDogAge ==
    [][\A r \in Req :
        /\ (StoreDoes(r, "searchDogName", "await2") /\ ~hist.touched[r]) =>
              /\ Len(dogs') = Len(dogs)
              /\ \A i \in 1..Len(dogs) :
                    dogs'[i] = IF i = doc[r].id
                               THEN [dogs[i] EXCEPT !.age = dogs[i].age + 1]
                               ELSE dogs[i]
              /\ cats' = cats
        /\ (Returns(r, "searchDogName", "resume2") /\ settled[r] = "fulfilled"
                /\ ~hist.touched[r]) =>
              /\ dogs[doc[r].id].name = arg[r].s
              /\ out'[r] = << [status |-> 200,
                               json |-> [name |-> dogs[doc[r].id].name,
                                         breed |-> dogs[doc[r].id].breed,
                                         age |-> dogs[doc[r].id].age]] >>
    ]_vars

\* The first of two dogs, stored with age 1, was searched once and answered with
\* age 2, which is the age stored; the other dog is as it was created.
C4_Witness ==
    \E r \in Req :
        /\ Answered(r, "searchDogName", 200)
        /\ ~hist.touched[r]
        /\ out[r][1].json = [name |-> "Rex", breed |-> "Lab", age |-> 2]
        /\ dogs = << [name |-> "Rex", breed |-> "Lab", age |-> 2],
                     [name |-> "Fido", breed |-> "Lab", age |-> 1] >>

---------------------------------------------------------------------------
\* C5: a by-name search (searchName, searchDogName) whose find succeeds with no
\* matching record answers 404 with an error body and leaves the store unchanged.
C5_NotFound404 ==
    [][\A r \in Req : \A h \in {"searchName", "searchDogName"} :
        (At(r, h, "resume") /\ pc'[r] # "resume"
            /\ settled[r] = "fulfilled" /\ doc[r] = Null) =>
              /\ pc'[r] = "done"
              /\ Len(out'[r]) = 1
              /\ out'[r][1].status = 404
              /\ DOMAIN out'[r][1].json = {"error"}
              /\ cats' = cats
              /\ dogs' = dogs
    ]_vars

\* The searchName half of C5 alone.
SearchNameNotFound404 ==
    [][\A r \in Req :
        (At(r, "searchName", "resume") /\ pc'[r] # "resume"
            /\ settled[r] = "fulfilled" /\ doc[r] = Null) =>
              /\ pc'[r] = "done"
              /\ Len(out'[r]) = 1
              /\ out'[r][1].status = 404
              /\ DOMAIN out'[r][1].json = {"error"}
              /\ cats' = cats
              /\ dogs' = dogs
    ]_vars

---------------------------------------------------------------------------
\* C8: every stored Cat and Dog has a non-empty name, and no step removes a
\* record or changes a record's name or a Cat's createdDate.
C8_NamesKept ==
    /\ [](/\ \A i \in 1..Len(cats) : cats[i].name # ""
          /\ \A i \in 1..Len(dogs) : dogs[i].name # "")
    /\ [][/\ Len(cats') >= Len(cats)
          /\ Len(dogs') >= Len(dogs)
          /\ \A i \in 1..Len(cats) :
                /\ cats'[i].name = cats[i].name
                /\ cats'[i].createdDate = cats[i].createdDate
          /\ \A i \in 1..Len(dogs) : dogs'[i].name = dogs[i].name
      ]_vars

\* Two cats are stored and the later one has been updated twice by updateLast.
C8_Witness ==
    /\ Len(cats) = 2
    /\ \E i \in 1..2 : Newest(cats, i) /\ cats[i].bedsOwned = hist.beds0[i] + 2
    /\ \E r \in Req : Answered(r, "updateLast", 200)

---------------------------------------------------------------------------
\* C9: the age increment of searchDogName is a read-modify-write: the save writes
\* the age the request read plus 1, whatever is stored by then, and the request
\* answers 200 with that age; when the stored age is no longer the one read, the
\* save does not add 1 to it (an update is lost), and when no other request has
\* saved the dog since the read, it adds exactly 1.
C9_LostUpdate ==
    [][\A r \in Req :
        /\ StoreDoes(r, "searchDogName", "await") =>
              (doc'[r] # Null => doc'[r].age = dogs[doc'[r].id].age)
        /\ (At(r, "searchDogName", "resume") /\ pc'[r] = "await2") =>
              doc'[r].age = doc[r].age + 1
        /\ StoreDoes(r, "searchDogName", "await2") =>
              /\ dogs'[doc[r].id].age = doc[r].age
              /\ dogs[doc[r].id].age # doc[r].age - 1 =>
                    dogs'[doc[r].id].age # dogs[doc[r].id].age + 1
              /\ ~hist.touched[r] => dogs'[doc[r].id].age = dogs[doc[r].id].age + 1
        /\ (Returns(r, "searchDogName", "resume2") /\ settled[r] = "fulfilled") =>
              /\ Len(out'[r]) = 1
              /\ out'[r][1].status = 200
              /\ out'[r][1].json.age = doc[r].age
    ]_vars

\* Two searches of the one dog, stored with age 1, have both answered 200 with
\* age 2, and the stored age is 2.
C9_Witness ==
    \E r, q \in Req :
        /\ r # q
        /\ Answered(r, "searchDogName", 200)
        /\ Answered(q, "searchDogName", 200)
        /\ out[r][1].json = [name |-> "Rex", breed |-> "Lab", age |-> 2]
        /\ out[q][1].json = [name |-> "Rex", breed |-> "Lab", age |-> 2]
        /\ dogs = << [name |-> "Rex", breed |-> "Lab", age |-> 2] >>
        /\ hist.touched[r] # hist.touched[q]

====
